---- MODULE Spec2Model ----
(***************************************************************************)
(* Bootstrap and idempotent initialisation of the news CMS when deployed   *)
(* as a fleet of serverless function instances over one remote database.   *)
(*                                                                         *)
(* Modelled code: api/index.js as listed in VERCEL_DEPLOYMENT_README.md    *)
(* (ensureDatabaseInitialized, seedDefaultDataIdempotent, the request      *)
(* pipeline and the cron endpoints), the second api/index.js listed there  *)
(* (LegacySpec) and server/config/database.js (the attempt's statements,   *)
(* and GatewaySpec for the values all, get and run return).                *)
(* server/config/schema.js is not part of the sources: createSchema and    *)
(* the uniqueness constraints of the tables follow the specification.      *)
(*                                                                         *)
(* One action is one macrotask of the Node.js event loop: the code a       *)
(* request or a database reply runs up to its next suspension point.       *)
(***************************************************************************)
EXTENDS Integers, Sequences, FiniteSets, TLC

\* ------------------------------------------------------------- bounds
NumProcs == 2
MaxReqs == 2
MaxFaults == 1
NumArticles == 2
MaxClock == 1

Procs == 1..NumProcs
Reqs == 1..MaxReqs
ArticleIds == 1..NumArticles
Times == 0..MaxClock

\* ------------------------------------------------- program constants
RolesWithoutModerator ==
  <<"super_admin", "admin", "editor", "journalist", "contributor",
    "registered_user">>

Roles ==
  <<"super_admin", "admin", "editor", "journalist", "contributor",
    "moderator", "registered_user">>

Permissions ==
  <<"article.create", "article.read", "article.update", "article.delete",
    "article.publish", "article.approve", "user.create", "user.read",
    "user.update", "user.delete", "category.manage", "ads.manage",
    "media.upload", "media.manage", "comment.moderate", "system.settings",
    "system.analytics">>

SeedUserNamePerInstance(p) == IF p = 1 THEN "admin" ELSE "admin2"

\* The username of the seed account, the same in every instance.
SeedUserName(p) == "admin"

\* Tables created by createSchema, in statement order.
SchemaTables ==
  <<"users", "roles", "permissions", "role_permissions", "user_roles",
    "articles">>

Routes == {"health", "api", "cronPublish", "cronCleanup"}
CronRoutes == {"cronPublish", "cronCleanup"}
\* Values of the x-cron-secret header ("none": the header is absent) and of
\* the CRON_SECRET configuration value ("none": unset). The handlers compare
\* the two with !==, so a header differs from the configured secret either by
\* being absent or by being a value that is not configured.
Headers == {"none", "s3cr3t"}
Secrets == {"none", "s3cr3t"}

UniqueErr == "UNIQUE constraint failed"

Range(s) == {s[i] : i \in DOMAIN s}

VARIABLES
  env,        \* deployment configuration shared by every instance
  faults,     \* statements the database has failed so far
  tables,     \* names of the tables that exist
  roles,      \* rows of roles (names), row id = position
  permissions,\* rows of permissions (names)
  users,      \* rows of users (usernames)
  user_roles, \* rows of user_roles, <<user_id, role_id>>
  role_permissions, \* rows of role_permissions, <<role_id, permission_id>>
  articles,   \* article id -> [status, at]: its status and scheduled_at
  clock,      \* the current time
  gw,         \* a call of database.all, get or run: the driver's result, the value returned
  proc,       \* instance -> its module-level state
  req,        \* request -> its progress through the pipeline
  att         \* request -> the initialisation attempt it started

dbVars == <<tables, roles, permissions, users, user_roles, role_permissions, articles>>
seedTables == <<roles, permissions, users, user_roles, role_permissions>>
vars == <<env, faults, tables, roles, permissions, users, user_roles,
          role_permissions, articles, clock, gw, proc, req, att>>

NoReq ==
  [proc |-> 0, route |-> "none", header |-> "none", saw |-> "none",
   pc |-> "idle", awaits |-> 0, outcome |-> "none", status |-> 0,
   count |-> 0, dbInit |-> FALSE, now |-> 0, gone |-> FALSE, body |-> "none"]

NoAtt ==
  [pc |-> "none", i |-> 0, existingUser |-> FALSE, lastID |-> 0,
   roleId |-> 0, allPermissions |-> <<>>, pings |-> 0, ddl |-> 0,
   inserts |-> 0, err |-> "none"]

NoArticle == [status |-> "none", at |-> 0]

NoCall == [op |-> "none", pc |-> "none"]

Init ==
  /\ env \in [url : BOOLEAN, token : BOOLEAN, cronSecret : Secrets]
  /\ faults = 0
  /\ tables = {}
  /\ roles = <<>>
  /\ permissions = <<>>
  /\ users = <<>>
  /\ user_roles = <<>>
  /\ role_permissions = <<>>
  /\ articles = [a \in ArticleIds |-> NoArticle]
  /\ clock = 0
  /\ gw = NoCall
  /\ proc = [p \in Procs |->
               [dbInitialized |-> FALSE, dbInitializing |-> FALSE,
                dbInitPromise |-> 0, db |-> FALSE]]
  /\ req = [r \in Reqs |-> NoReq]
  /\ att = [r \in Reqs |-> NoAtt]


\* ------------------------------------------------- BootstrapCoordinator

\* The state of a promise created by request k's call (0: no promise).
PromiseState(k) ==
  IF k = 0 THEN "none"
  ELSE IF att[k].pc = "done" THEN "fulfilled"
  ELSE IF att[k].pc = "failed" THEN "rejected"
  ELSE "pending"

InFlight(k) == att[k].pc \notin {"none", "done", "failed"}

\* The coordinator state of instance p as the specification names it.
CoordState(p) ==
  IF proc[p].dbInitialized THEN "Ready"
  ELSE IF PromiseState(proc[p].dbInitPromise) = "pending" THEN "Initializing"
  ELSE IF PromiseState(proc[p].dbInitPromise) = "rejected" THEN "Failed"
  ELSE "Uninitialized"

\* if (dbInitialized) return;
AlreadyInitialized(p) == proc[p].dbInitialized

InitInProgressNever(p) == FALSE

\* if (dbInitializing) return dbInitPromise;
InitInProgress(p) == proc[p].dbInitializing

HealthReportStarted(p) == proc[p].dbInitializing

\* res.json({ status: 'ok', ..., dbInitialized })
HealthReport(p) == proc[p].dbInitialized

ConfigMissingUrlOnly == ~env.url

\* if (!dbUrl || !authToken) throw
ConfigMissing == ~env.url \/ ~env.token

\* if (cronSecret !== process.env.CRON_SECRET) return 401
SecretMismatch(header, secret) == header # secret

\* res.status(401).json({ error: 'Unauthorized' })
UnauthorizedBody == "Unauthorized"

\* res.status(503).json({ error: 'Database initialization failed', message:
\* 'Service temporarily unavailable' }), in the catch that holds the error.
InitFailureBody(error) == "Database initialization failed"

\* res.status(500).json({ error: 'Cron job failed' }), in the catch that
\* holds the error.
CronFailureBody(error) == "Cron job failed"

\* next(): the request leaves the initialisation middleware and runs its route
\* up to the first database call of the handler.
AfterInit(rec) ==
  IF rec.route \in CronRoutes
  THEN IF SecretMismatch(rec.header, env.cronSecret)
       THEN [rec EXCEPT !.pc = "responded", !.status = 401,
                        !.body = UnauthorizedBody]
       ELSE IF rec.route = "cronCleanup"
            THEN [rec EXCEPT !.pc = "responded", !.status = 200]
            ELSE [rec EXCEPT !.pc = "cronUpdate", !.now = clock]
  ELSE [rec EXCEPT !.pc = "route"]

\* The initialisation middleware after await ensureDatabaseInitialized():
\* next() when the promise was fulfilled, the 503 of the catch when rejected.
Continue(rec, state, error) ==
  IF state = "fulfilled"
  THEN AfterInit([rec EXCEPT !.awaits = 0, !.outcome = "ok"])
  ELSE IF state = "rejected"
  THEN [rec EXCEPT !.awaits = 0, !.pc = "responded", !.outcome = "fail",
                   !.status = 503, !.body = InitFailureBody(error)]
  ELSE rec

\* The part of database.initialize that runs before its first await.
StartedAttempt ==
  IF ConfigMissing
  THEN [NoAtt EXCEPT !.pc = "failed", !.err = "config"]
  ELSE [NoAtt EXCEPT !.pc = "connect", !.pings = 1]

\* Instances are numbered in the order of their first request.
MayTarget(p) == p = 1 \/ \E q \in Reqs : req[q].proc = p - 1

\* A request arrives at instance p: the health route, or the initialisation
\* middleware calling ensureDatabaseInitialized. A call that finds the promise
\* settled continues in the same macrotask.
Request(r, p, route, header) ==
  /\ req[r].pc = "idle"
  /\ r > 1 => req[r - 1].pc # "idle"
  /\ MayTarget(p)
  /\ route \notin CronRoutes => header = "none"
  /\ LET arrived == [NoReq EXCEPT !.proc = p, !.route = route,
                                  !.header = header, !.saw = CoordState(p)]
     IN \/ /\ route = "health"
           /\ req' = [req EXCEPT ![r] =
                        [arrived EXCEPT !.pc = "responded", !.status = 200,
                                        !.dbInit = HealthReport(p)]]
           /\ UNCHANGED <<proc, att>>
        \/ /\ route # "health"
           /\ AlreadyInitialized(p)
           /\ req' = [req EXCEPT ![r] = Continue(arrived, "fulfilled", "none")]
           /\ UNCHANGED <<proc, att>>
        \/ /\ route # "health"
           /\ ~AlreadyInitialized(p)
           /\ InitInProgress(p)
           /\ req' = [req EXCEPT ![r] =
                        Continue([arrived EXCEPT !.pc = "awaiting",
                                                 !.awaits = proc[p].dbInitPromise],
                                 PromiseState(proc[p].dbInitPromise),
                                 att[proc[p].dbInitPromise].err)]
           /\ UNCHANGED <<proc, att>>
        \/ /\ route # "health"
           /\ ~AlreadyInitialized(p)
           /\ ~InitInProgress(p)
           /\ req' = [req EXCEPT ![r] =
                        Continue([arrived EXCEPT !.pc = "awaiting", !.awaits = r],
                                 IF ConfigMissing THEN "rejected" ELSE "pending",
                                 StartedAttempt.err)]
           /\ att' = [att EXCEPT ![r] = StartedAttempt]
           /\ proc' = [proc EXCEPT
                         ![p].dbInitializing = TRUE,
                         ![p].dbInitPromise = r,
                         ![p].db = IF ConfigMissing THEN @ ELSE TRUE,
                         ![p].dbInitialized = IF ConfigMissing THEN FALSE ELSE @]
  /\ UNCHANGED <<env, gw, clock, faults, dbVars>>

\* ------------------------------------------------------- QueryGateway

\* Whether the database fails the statement it is handed now.
FaultChoices == IF faults < MaxFaults THEN BOOLEAN ELSE {FALSE}

\* What the database answers to a statement on table t: an error text, or
\* "none" when the statement can be executed.
StmtError(t, f) ==
  IF f THEN "network"
  ELSE IF t \notin tables THEN "no such table"
  ELSE "none"

\* The uniqueness constraints of the schema: roles.name, permissions.name,
\* users.username and the pairs of user_roles and role_permissions.
UniqueViolation(tbl, row) == row \in Range(tbl)

\* database.run of an INSERT of row into table t whose rows are tbl: "ok", or
\* the message of the error it throws.
RunInsert(p, t, tbl, row, f) ==
  IF ~proc[p].db THEN "Database not initialized"
  ELSE IF StmtError(t, f) # "none" THEN StmtError(t, f)
  ELSE IF UniqueViolation(tbl, row) THEN UniqueErr
  ELSE "ok"

\* database.get, database.all, or database.run of an UPDATE, on table t:
\* "ok" or the message of the error.
RunStmt(p, t, f) ==
  IF ~proc[p].db THEN "Database not initialized"
  ELSE IF StmtError(t, f) # "none" THEN StmtError(t, f)
  ELSE "ok"

\* JavaScript values as the driver delivers them and as the gateway returns
\* them. Numbers are written as their decimal numerals.
JsNull == [t |-> "null"]
JsUndefined == [t |-> "undefined"]
\* An ArrayBuffer, the driver's value for a BLOB: an object without
\* enumerable properties of its own.
JsArrayBuffer == [t |-> "ArrayBuffer"]
JsBigInt(n) == [t |-> "bigint", v |-> n]
JsNumber(n) == [t |-> "number", v |-> n]
JsString(x) == [t |-> "string", v |-> x]
JsArray(items) == [t |-> "array", items |-> items]
JsObject(fields) == [t |-> "object", fields |-> fields]

\* Number(n) of a bigint n: exact up to 2^53, rounded to the nearest double
\* beyond it.
ToNumber(n) == IF n = "9007199254740993" THEN "9007199254740992" ELSE n

\* Array.isArray(obj)
IsArray(obj) == obj.t = "array"

\* typeof obj === 'object' (null is handled before this test is reached)
TypeofObject(obj) == obj.t \in {"object", "array", "ArrayBuffer", "null"}

\* Object.entries(obj): the enumerable own properties.
Entries(obj) == IF obj.t = "object" THEN obj.fields ELSE <<>>

RECURSIVE convertBigInts(_)
convertBigInts(obj) ==
  IF obj.t \in {"null", "undefined"} THEN obj
  ELSE IF obj.t = "bigint" THEN JsNumber(ToNumber(obj.v))
  ELSE IF IsArray(obj)
  THEN JsArray([i \in DOMAIN obj.items |-> convertBigInts(obj.items[i])])
  ELSE IF TypeofObject(obj)
  THEN JsObject([k \in DOMAIN Entries(obj) |-> convertBigInts(Entries(obj)[k])])
  ELSE obj

\* Truthiness of a value used as a condition (0n is falsy).
Truthy(x) == x.t \notin {"null", "undefined"} /\ x # JsBigInt("0")

\* all: (result.rows || []).map(row => this.convertBigInts(row))
AllReturn(result) ==
  JsArray([i \in DOMAIN result.rows |-> convertBigInts(result.rows[i])])

\* get: const row = result.rows?.[0] || null;
\*      return row ? this.convertBigInts(row) : null
GetReturn(result) ==
  IF Len(result.rows) = 0 THEN JsNull ELSE convertBigInts(result.rows[1])

\* run: { lastID: result.lastInsertRowid ? Number(result.lastInsertRowid)
\*        : null, changes: result.rowsAffected }
RunReturn(result) ==
  JsObject([lastID |-> IF Truthy(result.lastInsertRowid)
                       THEN JsNumber(ToNumber(result.lastInsertRowid.v))
                       ELSE JsNull,
            changes |-> result.rowsAffected])

\* ------------------------------------------- the initialisation attempt

FailedAttUnsettled(a, e) == [a EXCEPT !.pc = "swallowed", !.i = 0, !.err = e]

FailedAttAsDone(a, e) == [a EXCEPT !.pc = "done", !.i = 0, !.err = e]

FailedAttContinuing(a, e) == [a EXCEPT !.err = e]

FailedAtt(a, e) == [a EXCEPT !.pc = "failed", !.i = 0, !.err = e]
DoneAtt(a) == [a EXCEPT !.pc = "done", !.i = 0]
Issued(a) == [a EXCEPT !.inserts = @ + 1]

ToleratedAny(e) == TRUE

\* if (!error.message.includes('UNIQUE constraint failed')) throw error;
Tolerated(e) == e = UniqueErr

SkipSeedNever(existingUser) == FALSE

\* if (existingUser) return;
SkipSeed(existingUser) == existingUser

\* The attempt of request r moves on to a. When it ends, the same macrotask
\* sets dbInitialized (true at the end of the try, false in the catch),
\* settles dbInitPromise and resumes every request awaiting it.
Step(r, a, f) ==
  /\ att' = [att EXCEPT ![r] = a]
  /\ proc' = IF a.pc = "done" THEN [proc EXCEPT ![req[r].proc].dbInitialized = TRUE]
             ELSE IF a.pc = "failed" THEN [proc EXCEPT ![req[r].proc].dbInitialized = FALSE]
             ELSE proc
  /\ req' = [q \in Reqs |->
               IF req[q].pc = "awaiting" /\ req[q].awaits = r
               THEN Continue(req[q],
                             IF a.pc = "done" THEN "fulfilled"
                             ELSE IF a.pc = "failed" THEN "rejected" ELSE "pending",
                             a.err)
               ELSE req[q]]
  /\ faults' = IF f THEN faults + 1 ELSE faults

\* The reply to the liveness query of database.initialize.
Connect(r) ==
  /\ att[r].pc = "connect"
  /\ \E f \in FaultChoices :
       Step(r, IF f THEN FailedAtt(att[r], "network")
               ELSE [att[r] EXCEPT !.pc = "schema", !.i = 1], f)
  /\ UNCHANGED <<env, gw, clock, dbVars>>

CreateTableUnconditional(t) ==
  IF t \in tables THEN "table already exists" ELSE "none"

\* CREATE TABLE IF NOT EXISTS t: not an error when t exists.
CreateTableError(t) == "none"

\* createSchema: one CREATE TABLE IF NOT EXISTS statement per step.
CreateSchema(r) ==
  /\ att[r].pc = "schema"
  /\ \E f \in FaultChoices :
       LET last == att[r].i = Len(SchemaTables)
           e == IF f THEN "network" ELSE CreateTableError(SchemaTables[att[r].i])
       IN /\ tables' = IF e = "none" THEN tables \cup {SchemaTables[att[r].i]}
                       ELSE tables
          /\ Step(r, IF e # "none" THEN FailedAtt([att[r] EXCEPT !.ddl = @ + 1], e)
                     ELSE [att[r] EXCEPT !.ddl = @ + 1,
                                         !.pc = IF last THEN "gate" ELSE "schema",
                                         !.i = IF last THEN 0 ELSE @ + 1], f)
  /\ UNCHANGED <<env, gw, clock, seedTables, articles>>

\* seedDefaultDataIdempotent: SELECT id FROM users LIMIT 1 and the early return.
SeedGate(r) ==
  /\ att[r].pc = "gate"
  /\ \E f \in FaultChoices :
       LET e == RunStmt(req[r].proc, "users", f)
           found == Len(users) > 0
       IN Step(r, IF e # "ok" THEN FailedAtt(att[r], e)
                  ELSE IF SkipSeed(found)
                  THEN DoneAtt([att[r] EXCEPT !.existingUser = found])
                  ELSE [att[r] EXCEPT !.existingUser = found, !.pc = "roles", !.i = 1],
               f)
  /\ UNCHANGED <<env, gw, clock, dbVars>>

\* One iteration of the loop over the roles.
InsertRole(r) ==
  /\ att[r].pc = "roles"
  /\ \E f \in FaultChoices :
       LET e == RunInsert(req[r].proc, "roles", roles, Roles[att[r].i], f)
           last == att[r].i = Len(Roles)
       IN /\ roles' = IF e = "ok" THEN Append(roles, Roles[att[r].i]) ELSE roles
          /\ Step(r, IF e = "ok" \/ Tolerated(e)
                     THEN [Issued(att[r]) EXCEPT !.pc = IF last THEN "perms" ELSE "roles",
                                                 !.i = IF last THEN 1 ELSE @ + 1]
                     ELSE FailedAtt(Issued(att[r]), e), f)
  /\ UNCHANGED <<env, gw, clock, tables, permissions, users, user_roles, role_permissions,
                 articles>>

\* One iteration of the loop over the permissions.
InsertPermission(r) ==
  /\ att[r].pc = "perms"
  /\ \E f \in FaultChoices :
       LET e == RunInsert(req[r].proc, "permissions", permissions,
                          Permissions[att[r].i], f)
           last == att[r].i = Len(Permissions)
       IN /\ permissions' = IF e = "ok" THEN Append(permissions, Permissions[att[r].i])
                            ELSE permissions
          /\ Step(r, IF e = "ok" \/ Tolerated(e)
                     THEN [Issued(att[r]) EXCEPT !.pc = IF last THEN "user" ELSE "perms",
                                                 !.i = IF last THEN 0 ELSE @ + 1]
                     ELSE FailedAtt(Issued(att[r]), e), f)
  /\ UNCHANGED <<env, gw, clock, tables, roles, users, user_roles, role_permissions, articles>>

\* bcrypt.hash, then the INSERT of the seed account; a unique-constraint
\* failure is caught by the catch around the account block, which ends seeding.
InsertUser(r) ==
  /\ att[r].pc = "user"
  /\ \E f \in FaultChoices :
       LET p == req[r].proc
           e == RunInsert(p, "users", users, SeedUserName(p), f)
       IN /\ users' = IF e = "ok" THEN Append(users, SeedUserName(p)) ELSE users
          /\ Step(r, IF e = "ok"
                     THEN [Issued(att[r]) EXCEPT !.pc = "getRole",
                                                 !.lastID = Len(users) + 1]
                     ELSE IF Tolerated(e) THEN DoneAtt(Issued(att[r]))
                     ELSE FailedAtt(Issued(att[r]), e), f)
  /\ UNCHANGED <<env, gw, clock, tables, roles, permissions, user_roles, role_permissions,
                 articles>>

\* SELECT id FROM roles WHERE name = 'super_admin'; reading .id of a missing
\* row throws a TypeError.
GetSuperAdminRole(r) ==
  /\ att[r].pc = "getRole"
  /\ \E f \in FaultChoices :
       LET e == RunStmt(req[r].proc, "roles", f)
           ids == {k \in DOMAIN roles : roles[k] = "super_admin"}
       IN Step(r, IF e # "ok" THEN FailedAtt(att[r], e)
                  ELSE IF ids = {} THEN FailedAtt(att[r], "TypeError")
                  ELSE [att[r] EXCEPT !.pc = "userRole",
                                      !.roleId = CHOOSE k \in ids : \A j \in ids : k <= j],
               f)
  /\ UNCHANGED <<env, gw, clock, dbVars>>

\* INSERT INTO user_roles; a unique-constraint failure is caught by the catch
\* around the account block, which ends seeding.
InsertUserRole(r) ==
  /\ att[r].pc = "userRole"
  /\ \E f \in FaultChoices :
       LET row == <<att[r].lastID, att[r].roleId>>
           e == RunInsert(req[r].proc, "user_roles", user_roles, row, f)
       IN /\ user_roles' = IF e = "ok" THEN Append(user_roles, row) ELSE user_roles
          /\ Step(r, IF e = "ok" THEN [Issued(att[r]) EXCEPT !.pc = "allPerms"]
                     ELSE IF Tolerated(e) THEN DoneAtt(Issued(att[r]))
                     ELSE FailedAtt(Issued(att[r]), e), f)
  /\ UNCHANGED <<env, gw, clock, tables, roles, permissions, users, role_permissions, articles>>

\* SELECT id FROM permissions: the rows the grant loop iterates over.
SelectAllPermissions(r) ==
  /\ att[r].pc = "allPerms"
  /\ \E f \in FaultChoices :
       LET e == RunStmt(req[r].proc, "permissions", f)
       IN Step(r, IF e # "ok" THEN FailedAtt(att[r], e)
                  ELSE IF Len(permissions) = 0 THEN DoneAtt(att[r])
                  ELSE [att[r] EXCEPT !.pc = "grants", !.i = 1,
                                      !.allPermissions =
                                         [k \in 1..Len(permissions) |-> k]],
               f)
  /\ UNCHANGED <<env, gw, clock, dbVars>>

\* One iteration of the loop granting the permissions to super_admin; after
\* the last one seeding returns and the attempt sets dbInitialized.
GrantPermission(r) ==
  /\ att[r].pc = "grants"
  /\ \E f \in FaultChoices :
       LET row == <<att[r].roleId, att[r].allPermissions[att[r].i]>>
           e == RunInsert(req[r].proc, "role_permissions", role_permissions, row, f)
           last == att[r].i = Len(att[r].allPermissions)
       IN /\ role_permissions' = IF e = "ok" THEN Append(role_permissions, row)
                                 ELSE role_permissions
          /\ Step(r, IF e = "ok" \/ Tolerated(e)
                     THEN IF last THEN DoneAtt(Issued(att[r]))
                          ELSE [Issued(att[r]) EXCEPT !.i = @ + 1]
                     ELSE FailedAtt(Issued(att[r]), e), f)
  /\ UNCHANGED <<env, gw, clock, tables, roles, permissions, users, user_roles, articles>>

\* ------------------------------------------------------ route handlers

DueIgnoringTime(a, now) == articles[a].status = "scheduled"

\* WHERE status = 'scheduled' AND scheduled_at <= ?
Due(a, now) == articles[a].status = "scheduled" /\ articles[a].at <= now

\* The reply to the UPDATE of the publish-scheduled-articles endpoint, which
\* ran with the time the handler read before it sent the statement.
CronPublish(r) ==
  /\ req[r].pc = "cronUpdate"
  /\ \E f \in FaultChoices :
       LET e == RunStmt(req[r].proc, "articles", f)
       IN /\ articles' = IF e = "ok"
                         THEN [a \in ArticleIds |->
                                 IF Due(a, req[r].now)
                                 THEN [articles[a] EXCEPT !.status = "published"]
                                 ELSE articles[a]]
                         ELSE articles
          /\ req' = [req EXCEPT ![r] =
                       IF e = "ok"
                       THEN [@ EXCEPT !.pc = "responded", !.status = 200,
                                      !.count = Cardinality({a \in ArticleIds :
                                                               Due(a, req[r].now)})]
                       ELSE [@ EXCEPT !.pc = "responded", !.status = 500,
                                      !.body = CronFailureBody(e)]]
          /\ faults' = IF f THEN faults + 1 ELSE faults
  /\ UNCHANGED <<env, gw, clock, tables, seedTables, proc, att>>

\* A business route (articles, categories, ...) answers; it may store a new
\* article as a draft or as scheduled.
BusinessRoute(r) ==
  /\ req[r].pc = "route"
  /\ req' = [req EXCEPT ![r].pc = "responded", ![r].status = 200]
  /\ \/ UNCHANGED articles
     \/ /\ RunStmt(req[r].proc, "articles", FALSE) = "ok"
        /\ \E a \in ArticleIds, s \in {"draft", "scheduled"}, t \in Times :
             /\ articles[a].status = "none"
             /\ \A b \in ArticleIds : b < a => articles[b].status # "none"
             /\ s = "draft" => t = 0
             /\ articles' = [articles EXCEPT ![a] = [status |-> s, at |-> t]]
  /\ UNCHANGED <<env, gw, clock, faults, tables, seedTables, proc, att>>

\* Time passes: the scheduled time of an article elapses.
Tick ==
  /\ clock < MaxClock
  /\ \E a \in ArticleIds : articles[a].status = "scheduled" /\ articles[a].at > clock
  /\ clock' = clock + 1
  /\ UNCHANGED <<env, gw, faults, dbVars, proc, req, att>>

Next ==
  \/ \E r \in Reqs, p \in Procs, route \in Routes, header \in Headers :
       Request(r, p, route, header)
  \/ \E r \in Reqs : Connect(r)
  \/ \E r \in Reqs : CreateSchema(r)
  \/ \E r \in Reqs : SeedGate(r)
  \/ \E r \in Reqs : InsertRole(r)
  \/ \E r \in Reqs : InsertPermission(r)
  \/ \E r \in Reqs : InsertUser(r)
  \/ \E r \in Reqs : GetSuperAdminRole(r)
  \/ \E r \in Reqs : InsertUserRole(r)
  \/ \E r \in Reqs : SelectAllPermissions(r)
  \/ \E r \in Reqs : GrantPermission(r)
  \/ \E r \in Reqs : CronPublish(r)
  \/ \E r \in Reqs : BusinessRoute(r)
  \/ Tick

Spec == Init /\ [][Next]_vars

\* The reply of the database to the statement the attempt of r is waiting on.
AttemptStep(r) ==
  \/ Connect(r) \/ CreateSchema(r) \/ SeedGate(r) \/ InsertRole(r)
  \/ InsertPermission(r) \/ InsertUser(r) \/ GetSuperAdminRole(r)
  \/ InsertUserRole(r) \/ SelectAllPermissions(r) \/ GrantPermission(r)

DatabaseReplies == \E r \in Reqs : AttemptStep(r)

\* Every statement an attempt has sent is eventually answered, with a result
\* or with an error.
LiveSpec == Spec /\ WF_vars(DatabaseReplies)

\* A caller stops waiting while its request is suspended on the shared
\* promise and cancels the attempt it waits for.
GiveUpCancelling(r) ==
  /\ req[r].pc = "awaiting"
  /\ ~req[r].gone
  /\ att' = [att EXCEPT ![req[r].awaits] = FailedAtt(@, "cancelled")]
  /\ proc' = [proc EXCEPT ![req[r].proc].dbInitialized = FALSE]
  /\ req' = [q \in Reqs |->
               IF req[q].pc = "awaiting" /\ req[q].awaits = req[r].awaits
               THEN [Continue(req[q], "rejected", "cancelled") EXCEPT !.gone = (q = r)]
               ELSE req[q]]
  /\ UNCHANGED <<env, gw, clock, faults, dbVars>>

\* A caller stops waiting (its timeout elapses, it closes the connection)
\* while its request is suspended in the middleware. The middleware awaits
\* the promise and nothing else: no code runs when the caller leaves, and
\* the continuation of the request still runs when the promise settles.
GiveUp(r) ==
  /\ req[r].pc = "awaiting"
  /\ ~req[r].gone
  /\ req' = [req EXCEPT ![r].gone = TRUE]
  /\ UNCHANGED <<env, gw, clock, faults, dbVars, proc, att>>

TimeoutNext ==
  \/ Next
  \/ \E r \in Reqs : GiveUp(r)

TimeoutSpec == Init /\ [][TimeoutNext]_vars

\* The rows of articles a running deployment may hold: the ids in use are
\* consecutive, and only a scheduled article carries a scheduled time.
StoredArticles ==
  {f \in [ArticleIds -> [status : {"none", "draft", "scheduled", "published"},
                          at : Times]] :
     \A a \in ArticleIds :
       /\ f[a].status # "scheduled" => f[a].at = 0
       /\ (a > 1 /\ f[a].status # "none") => f[a - 1].status # "none"}

FreshDatabase ==
  /\ tables = {}
  /\ roles = <<>>
  /\ permissions = <<>>
  /\ users = <<>>
  /\ user_roles = <<>>
  /\ role_permissions = <<>>
  /\ articles = [a \in ArticleIds |-> NoArticle]

\* The database after a completed initialisation (the result C7 describes)
\* and some use of the article routes.
UsedDatabase ==
  /\ tables = Range(SchemaTables)
  /\ roles = Roles
  /\ permissions = Permissions
  /\ users = <<SeedUserName(1)>>
  /\ user_roles = << <<1, 1>> >>
  /\ role_permissions = [k \in DOMAIN Permissions |-> <<1, k>>]
  /\ articles \in StoredArticles

\* New instances start against a database that is either fresh or was
\* initialised and used by earlier instances of the deployment.
InitRedeployed ==
  /\ env \in [url : BOOLEAN, token : BOOLEAN, cronSecret : Secrets]
  /\ faults = 0
  /\ clock = 0
  /\ gw = NoCall
  /\ FreshDatabase \/ UsedDatabase
  /\ proc = [p \in Procs |->
               [dbInitialized |-> FALSE, dbInitializing |-> FALSE,
                dbInitPromise |-> 0, db |-> FALSE]]
  /\ req = [r \in Reqs |-> NoReq]
  /\ att = [r \in Reqs |-> NoAtt]

SpecRedeployed == InitRedeployed /\ [][Next]_vars

\* A database that was seeded and whose accounts were removed afterwards:
\* the users table is empty again, the user_roles row of the removed account
\* is still stored, and the grants are either still stored or were removed
\* with the accounts.
OrphanedDatabase ==
  /\ tables = Range(SchemaTables)
  /\ roles = Roles
  /\ permissions = Permissions
  /\ users = <<>>
  /\ user_roles = << <<1, 1>> >>
  /\ role_permissions \in {<<>>, [k \in DOMAIN Permissions |-> <<1, k>>]}
  /\ articles = [a \in ArticleIds |-> NoArticle]

\* New instances start against a database that is either fresh or orphaned.
InitOrphaned ==
  /\ env \in [url : BOOLEAN, token : BOOLEAN, cronSecret : Secrets]
  /\ faults = 0
  /\ clock = 0
  /\ gw = NoCall
  /\ FreshDatabase \/ OrphanedDatabase
  /\ proc = [p \in Procs |->
               [dbInitialized |-> FALSE, dbInitializing |-> FALSE,
                dbInitPromise |-> 0, db |-> FALSE]]
  /\ req = [r \in Reqs |-> NoReq]
  /\ att = [r \in Reqs |-> NoAtt]

SpecOrphaned == InitOrphaned /\ [][Next]_vars

\* ------------------------------------ the second entry point (api/index.js)
\* app.use(async (req, res, next) => { if (!dbInitialized) { try { await
\* database.initialize(); dbInitialized = true; } catch ... } next(); })

\* if (!process.env.TURSO_CONNECTION_URL) return res.status(503)
RefusedAfterFailure == ~env.tursoUrl

\* res.status(503).json({ error: 'Database not configured. Set ...' })
NotConfiguredBody(error) == "Database not configured"

\* The middleware after a failed database.initialize: the 503, or next().
AfterFailure(rec, error) ==
  IF RefusedAfterFailure
  THEN [rec EXCEPT !.awaits = 0, !.pc = "responded", !.outcome = "fail",
                   !.status = 503, !.body = NotConfiguredBody(error)]
  ELSE [rec EXCEPT !.awaits = 0, !.pc = "route", !.outcome = "fail"]

\* A request reaches the middleware of instance p. Every request that finds
\* dbInitialized false calls database.initialize itself.
LegacyRequest(r, p) ==
  /\ req[r].pc = "idle"
  /\ r > 1 => req[r - 1].pc # "idle"
  /\ MayTarget(p)
  /\ LET arrived == [NoReq EXCEPT !.proc = p, !.route = "api",
                                  !.saw = IF proc[p].dbInitialized THEN "Ready"
                                          ELSE "Uninitialized"]
     IN \/ /\ proc[p].dbInitialized
           /\ req' = [req EXCEPT ![r] = [arrived EXCEPT !.pc = "route"]]
           /\ UNCHANGED <<proc, att>>
        \/ /\ ~proc[p].dbInitialized
           /\ ConfigMissing
           /\ req' = [req EXCEPT ![r] = AfterFailure(arrived, StartedAttempt.err)]
           /\ att' = [att EXCEPT ![r] = StartedAttempt]
           /\ UNCHANGED proc
        \/ /\ ~proc[p].dbInitialized
           /\ ~ConfigMissing
           /\ req' = [req EXCEPT ![r] = [arrived EXCEPT !.pc = "awaiting",
                                                        !.awaits = r]]
           /\ att' = [att EXCEPT ![r] = StartedAttempt]
           /\ proc' = [proc EXCEPT ![p].db = TRUE]
  /\ UNCHANGED <<env, gw, clock, faults, dbVars>>

\* The reply to the liveness query of the database.initialize call of r.
LegacyConnect(r) ==
  /\ att[r].pc = "connect"
  /\ \E f \in FaultChoices :
       /\ att' = [att EXCEPT ![r] = IF f THEN FailedAtt(att[r], "network")
                                    ELSE DoneAtt(att[r])]
       /\ proc' = IF f THEN proc
                  ELSE [proc EXCEPT ![req[r].proc].dbInitialized = TRUE]
       /\ req' = [req EXCEPT ![r] =
                    IF f THEN AfterFailure(req[r], "network")
                    ELSE [req[r] EXCEPT !.awaits = 0, !.pc = "route",
                                        !.outcome = "ok"]]
       /\ faults' = IF f THEN faults + 1 ELSE faults
  /\ UNCHANGED <<env, gw, clock, dbVars>>

LegacyInit ==
  /\ env \in {e \in [url : BOOLEAN, token : BOOLEAN, cronSecret : {"none"},
                      tursoUrl : BOOLEAN] : e.tursoUrl => e.url}
  /\ faults = 0
  /\ clock = 0
  /\ gw = NoCall
  /\ FreshDatabase \/ UsedDatabase
  /\ proc = [p \in Procs |->
               [dbInitialized |-> FALSE, dbInitializing |-> FALSE,
                dbInitPromise |-> 0, db |-> FALSE]]
  /\ req = [r \in Reqs |-> NoReq]
  /\ att = [r \in Reqs |-> NoAtt]

LegacyNext ==
  \/ \E r \in Reqs, p \in Procs : LegacyRequest(r, p)
  \/ \E r \in Reqs : LegacyConnect(r)
  \/ \E r \in Reqs : BusinessRoute(r)

LegacySpec == LegacyInit /\ [][LegacyNext]_vars


\* ------------------------------------------ the gateway on driver results
MaxRows == 2

\* Column values of the driver: null, integers (as number or as bigint),
\* text and blobs.
DriverValues ==
  {JsNull, JsBigInt("0"), JsBigInt("7"), JsBigInt("9007199254740993"),
   JsNumber("7"), JsString("7"), JsArrayBuffer}

\* Values one level deep: arrays and objects of driver values.
NestedValues ==
  DriverValues
    \cup {JsArray(<<>>)}
    \cup {JsArray(<<x>>) : x \in DriverValues}
    \cup {JsObject([a |-> x]) : x \in DriverValues}

\* Rows: objects whose enumerable properties are the columns.
DriverRows == {JsObject([id |-> x]) : x \in NestedValues}

\* ResultSet of the driver: rows for a query; lastInsertRowid (a bigint or
\* undefined) and rowsAffected (a number) for a statement.
QueryResults ==
  {[rows |-> rs] : rs \in UNION {[1..n -> DriverRows] : n \in 0..MaxRows}}

StatementResults ==
  [lastInsertRowid : {JsUndefined, JsBigInt("0"), JsBigInt("7"),
                      JsBigInt("9007199254740993")},
   rowsAffected : {JsNumber("0"), JsNumber("7")}]

\* What this.db.execute may reject with.
DriverErrors == {"network", "no such table", UniqueErr}

\* A call of all, get or run begins, in a process that has a connection
\* object or has none.
GatewayInit ==
  /\ env = [url |-> TRUE, token |-> TRUE, cronSecret |-> "none"]
  /\ faults = 0
  /\ clock = 0
  /\ \E op \in {"all", "get", "run"} :
       gw = [op |-> op, pc |-> "called", sent |-> FALSE]
  /\ FreshDatabase
  /\ \E d \in BOOLEAN :
       proc = [p \in Procs |->
                 [dbInitialized |-> FALSE, dbInitializing |-> FALSE,
                  dbInitPromise |-> 0, db |-> d]]
  /\ req = [r \in Reqs |-> NoReq]
  /\ att = [r \in Reqs |-> NoAtt]

CaughtAndSwallowed(op, sent, e) ==
  [op |-> op, pc |-> "returned", sent |-> sent, raised |-> e, ret |-> JsNull]

\* catch (error) { logger.error(...); throw error; }
Caught(op, sent, e) ==
  [op |-> op, pc |-> "thrown", sent |-> sent, raised |-> e, err |-> e]

\* The start of all, get and run: if (!this.db) throw new Error('Database
\* not initialized'), else the statement is handed to the driver.
Call ==
  /\ gw.pc = "called"
  /\ gw' = IF ~proc[1].db THEN Caught(gw.op, FALSE, "Database not initialized")
           ELSE [op |-> gw.op, pc |-> "sent", sent |-> TRUE]
  /\ UNCHANGED <<env, clock, faults, dbVars, proc, req, att>>

\* The driver rejects the statement.
Throws ==
  /\ gw.pc = "sent"
  /\ \E e \in DriverErrors : gw' = Caught(gw.op, gw.sent, e)
  /\ UNCHANGED <<env, clock, faults, dbVars, proc, req, att>>

\* The driver answers the statement of op with res, and op returns value.
Returns(op, res, value) ==
  /\ gw.pc = "sent"
  /\ gw.op = op
  /\ gw' = [op |-> op, pc |-> "returned", sent |-> gw.sent, result |-> res,
            ret |-> value]
  /\ UNCHANGED <<env, clock, faults, dbVars, proc, req, att>>

All == \E res \in QueryResults : Returns("all", res, AllReturn(res))

Get == \E res \in QueryResults : Returns("get", res, GetReturn(res))

Run == \E res \in StatementResults : Returns("run", res, RunReturn(res))

GatewayNext == Call \/ Throws \/ All \/ Get \/ Run

GatewaySpec == GatewayInit /\ [][GatewayNext]_vars


\* ---------------------------------------------------------- properties

\* A cron request that carries a secret other than the configured one.
WrongSecret(r) ==
  /\ req[r].route \in CronRoutes
  /\ req[r].header # env.cronSecret

\* r called ensureDatabaseInitialized (every route but the health check).
Called(r) == req[r].route \in Routes \ {"health"}

\* The attempts instance p has started: one database.initialize call each.
StartedBy(p) == {k \in Reqs : req[k].proc = p /\ att[k].pc # "none"}

Count(tbl, x) == Cardinality({k \in DOMAIN tbl : tbl[k] = x})

\* Every role, every permission, the seed account, its link to super_admin
\* and a grant of every permission to super_admin.
FullySeeded ==
  /\ \A k \in DOMAIN Roles : Count(roles, Roles[k]) = 1
  /\ \A k \in DOMAIN Permissions : Count(permissions, Permissions[k]) = 1
  /\ users = <<"admin">>
  /\ \E rid \in DOMAIN roles :
       /\ roles[rid] = "super_admin"
       /\ <<1, rid>> \in Range(user_roles)
       /\ \A k \in DOMAIN permissions : <<rid, k>> \in Range(role_permissions)

\* C1: within one instance, the calls that arrive while the coordinator is
\* Uninitialized or Initializing cause exactly one database.initialize call,
\* at most one attempt is in flight, and all of them get the same outcome,
\* the one of that attempt.
C1_SingletonCoordination ==
  \A p \in Procs :
    LET callers == {r \in Reqs : /\ req[r].proc = p
                                 /\ Called(r)
                                 /\ req[r].saw \in {"Uninitialized", "Initializing"}}
    IN callers # {} =>
         /\ Cardinality(StartedBy(p)) = 1
         /\ Cardinality({k \in StartedBy(p) : InFlight(k)}) <= 1
         /\ \A r1, r2 \in callers :
              (req[r1].outcome # "none" /\ req[r2].outcome # "none")
                => req[r1].outcome = req[r2].outcome
         /\ \A r \in callers, k \in StartedBy(p) :
              /\ req[r].outcome = "ok" => att[k].pc = "done"
              /\ req[r].outcome = "fail" => att[k].pc = "failed"
              /\ req[r].outcome = "none" => InFlight(k)

C1_Witness ==
  \E r1, r2 \in Reqs :
    /\ r1 # r2
    /\ req[r1].proc = req[r2].proc
    /\ req[r1].saw = "Uninitialized"
    /\ req[r2].saw = "Initializing"
    /\ req[r1].outcome = "ok"
    /\ req[r2].outcome = "ok"

\* C2: a call that arrives after an attempt of its instance has failed on a
\* database error (the configuration is complete) starts a new attempt.
C2_RetryAfterFailure ==
  \A r \in Reqs :
    (Called(r) /\ req[r].saw = "Failed" /\ ~ConfigMissing) => att[r].pc # "none"

\* C3: once two or more seeding runs that all found no user have completed,
\* there is exactly one user row, named admin, and every role name and every
\* permission name occurs exactly once.
C3_SeedExactlyOnce ==
  LET racers == {r \in Reqs : att[r].pc = "done" /\ ~att[r].existingUser}
  IN Cardinality(racers) >= 2 =>
       /\ users = <<"admin">>
       /\ Len(roles) = Len(Roles)
       /\ \A k \in DOMAIN Roles : Count(roles, Roles[k]) = 1
       /\ Len(permissions) = Len(Permissions)
       /\ \A k \in DOMAIN Permissions : Count(permissions, Permissions[k]) = 1

C3_Witness ==
  \E r1, r2 \in Reqs :
    /\ req[r1].proc # req[r2].proc
    /\ att[r1].pc = "done" /\ ~att[r1].existingUser /\ att[r1].lastID = 1
    /\ att[r2].pc = "done" /\ ~att[r2].existingUser /\ att[r2].inserts > Len(Roles)

\* C4: a seeding run whose existence check finds a user row returns at once:
\* the check is its last database operation, it issues no INSERT and no seed
\* table changes.
C4_SeedSkipsWhenUserExists ==
  [][\A r \in Reqs :
       (att[r].pc = "gate" /\ Len(users) > 0 /\ att'[r] # att[r])
         => /\ att'[r].pc \in {"done", "failed"}
            /\ att'[r].inserts = 0
            /\ UNCHANGED seedTables]_vars

C4_Witness ==
  \E r \in Reqs :
    /\ att[r].pc = "done"
    /\ att[r].existingUser
    /\ att[r].inserts = 0
    /\ proc[req[r].proc].dbInitialized

\* C5 as stated: once a user row exists no seeding run writes to a seed table.
C5_NoWriteOnceUserExists ==
  [][Len(users) > 0 => UNCHANGED seedTables]_vars

\* C5 as amended: once a user row exists, users, roles and permissions never
\* change again, and the only further seed writes are the user_roles link
\* and the role_permissions grants of the run that inserted that user row.
C5_OnlyWinnerWritesOnceUserExists ==
  [][Len(users) > 0 =>
       /\ UNCHANGED <<users, roles, permissions>>
       /\ \A r \in Reqs :
            (att'[r] # att[r] /\ ~UNCHANGED <<user_roles, role_permissions>>)
              => (att[r].lastID = 1 /\ ~att[r].existingUser)]_vars

C5_Witness ==
  /\ Len(users) > 0
  /\ Len(role_permissions) > 0
  /\ \E r \in Reqs : att[r].pc = "done" /\ att[r].existingUser
  /\ \E r \in Reqs : att[r].pc = "grants" /\ att[r].lastID = 1

\* C6: after a seeding run was interrupted, once a seeding run has returned
\* and none is under way the database is fully seeded.
C6_SeedRecovers ==
  ( /\ \E k \in Reqs : att[k].pc = "failed" /\ att[k].inserts > 0
    /\ \E r \in Reqs : att[r].pc = "done"
    /\ \A r \in Reqs : ~InFlight(r) )
  => FullySeeded

\* C7: on a fresh database one uninterrupted initialisation, alone, leaves
\* exactly the 7 roles, one user admin linked to super_admin, and one grant
\* to super_admin per permission row.
C7_FreshSeedResult ==
  \A r \in Reqs :
    ( /\ att[r].pc = "done"
      /\ ~att[r].existingUser
      /\ \A k \in Reqs \ {r} : att[k].pc = "none" )
    => /\ roles = <<"super_admin", "admin", "editor", "journalist",
                    "contributor", "moderator", "registered_user">>
       /\ users = <<"admin">>
       /\ user_roles = << <<1, 1>> >>
       /\ Len(role_permissions) = Len(permissions)
       /\ \A k \in DOMAIN permissions : Count(role_permissions, <<1, k>>) = 1

C7_Witness ==
  \E r \in Reqs :
    /\ att[r].pc = "done"
    /\ ~att[r].existingUser
    /\ att[r].inserts = Len(Roles) + Len(Permissions) + 2 + Len(permissions)
    /\ \A k \in Reqs \ {r} : att[k].pc = "none"

\* The instances with an initialisation attempt in flight.
Initializers == {p \in Procs : \E k \in StartedBy(p) : InFlight(k)}

\* C8 as stated: at most one instance of the fleet performs the
\* initialisation work at any one time.
C8_OneInitializerInFleet == Cardinality(Initializers) <= 1

\* C8 as amended: every instance has at most one attempt in flight; several
\* instances may initialise at the same time, at most one attempt each.
C8_OneInitializerPerInstance ==
  /\ \A p \in Procs : Cardinality({k \in StartedBy(p) : InFlight(k)}) <= 1
  /\ Cardinality({k \in Reqs : InFlight(k)}) = Cardinality(Initializers)

C8_Witness ==
  \E r1, r2 \in Reqs :
    /\ req[r1].proc # req[r2].proc
    /\ att[r1].pc \in {"schema", "roles", "perms"}
    /\ att[r2].pc \in {"schema", "roles", "perms"}

\* C9: a cron request with a wrong secret is answered 401.
C9_WrongSecretIs401 ==
  \A r \in Reqs :
    (WrongSecret(r) /\ req[r].pc = "responded") => req[r].status = 401

\* C10: a cron request with a wrong secret issues no schema statement and no
\* INSERT.
C10_WrongSecretNoWrites ==
  \A r \in Reqs :
    WrongSecret(r) => (att[r].ddl = 0 /\ att[r].inserts = 0)

\* C11: the reply to the UPDATE of a publish-scheduled-articles request that
\* is answered 200 carried the configured secret, turned exactly the articles
\* that were scheduled with a scheduled time not after the handler's time into
\* published ones, left every other article as it was and reports their
\* number; run again with the same time it would find no article to change.
\* With no such article the reply changes no row and reports 0. A reply that
\* is not a 200 changes no article.
C11_PublishIdempotent ==
  [][\A r \in Reqs :
       (req[r].pc = "cronUpdate" /\ req'[r].pc = "responded") =>
         LET due == {a \in ArticleIds : /\ articles[a].status = "scheduled"
                                        /\ articles[a].at <= req[r].now}
             again == {a \in ArticleIds : /\ articles'[a].status = "scheduled"
                                          /\ articles'[a].at <= req[r].now}
         IN IF req'[r].status = 200
            THEN /\ req[r].header = env.cronSecret
                 /\ req'[r].count = Cardinality(due)
                 /\ \A a \in ArticleIds :
                      articles'[a] = IF a \in due
                                     THEN [status |-> "published", at |-> articles[a].at]
                                     ELSE articles[a]
                 /\ due = {} => (articles' = articles /\ req'[r].count = 0)
                 /\ again = {}
            ELSE articles' = articles]_vars

C11_Witness ==
  \E r1, r2 \in Reqs, a, b \in ArticleIds :
    /\ req[r1].route = "cronPublish" /\ req[r1].status = 200 /\ req[r1].count = 1
    /\ req[r2].route = "cronPublish" /\ req[r2].status = 200 /\ req[r2].count = 0
    /\ articles[a].status = "published"
    /\ articles[b].status = "scheduled" /\ articles[b].at > req[r1].now

\* C12: a health request can be answered whenever it arrives, whatever the
\* state of the coordinator and of the database; it is answered in the step
\* in which it arrives, awaits no attempt and starts none, changes nothing
\* but its own record, and reports dbInitialized = true exactly when the
\* coordinator of its instance is Ready.
C12_HealthAnswersWithoutEffects ==
  /\ [](\A r \in Reqs, p \in Procs :
          (req[r].pc = "idle" /\ (r > 1 => req[r - 1].pc # "idle") /\ MayTarget(p))
            => ENABLED Request(r, p, "health", "none"))
  /\ [][\A r \in Reqs :
          (req[r].pc = "idle" /\ req'[r].route = "health") =>
            /\ req'[r].pc = "responded"
            /\ req'[r].status = 200
            /\ req'[r].awaits = 0
            /\ req'[r].outcome = "none"
            /\ req'[r].dbInit = (CoordState(req'[r].proc) = "Ready")
            /\ \A q \in Reqs \ {r} : req'[q] = req[q]
            /\ UNCHANGED <<proc, att, dbVars, faults, clock, env>>]_vars

C12_Witness ==
  \E r, k \in Reqs :
    /\ req[r].route = "health"
    /\ req[r].pc = "responded"
    /\ req[r].saw = "Initializing"
    /\ ~req[r].dbInit
    /\ req[k].proc = req[r].proc
    /\ att[k].pc = "failed"
    /\ att[k].err = "network"

\* C13: a request whose initialisation failed is answered 503 and is never
\* passed on to a route handler.
C13_FailedInitIs503 ==
  \A r \in Reqs :
    req[r].outcome = "fail" => (req[r].pc = "responded" /\ req[r].status = 503)

\* C14: an instance whose dbInitialized is true has an attempt of its own
\* that ended without an error after database.initialize returned, every
\* schema statement was executed and seeding returned; an instance whose
\* attempt failed, at whatever stage, has dbInitialized false.
C14_ReadyOnlyAfterSuccess ==
  \A p \in Procs :
    /\ proc[p].dbInitialized =>
         \E k \in StartedBy(p) :
           /\ att[k].pc = "done"
           /\ att[k].err = "none"
           /\ att[k].pings = 1
           /\ proc[p].db
           /\ att[k].ddl = Len(SchemaTables)
           /\ tables = Range(SchemaTables)
           /\ att[k].existingUser \/ att[k].inserts > Len(Roles) + Len(Permissions)
    /\ (\E k \in StartedBy(p) : att[k].pc = "failed") => ~proc[p].dbInitialized

C14_Witness ==
  \E p, q \in Procs, k \in Reqs :
    /\ proc[p].dbInitialized
    /\ ~proc[q].dbInitialized
    /\ req[k].proc = q
    /\ att[k].pc = "failed"
    /\ att[k].inserts > 0

\* C15: an instance that is Ready stays Ready, has started exactly one attempt,
\* and none of its attempts does anything any more; a call of
\* ensureDatabaseInitialized that arrives at it returns successfully in the
\* arrival step without starting or awaiting an attempt and without any
\* database operation.
C15_ReadyIsAbsorbing ==
  /\ [](\A p \in Procs : proc[p].dbInitialized => Cardinality(StartedBy(p)) = 1)
  /\ [][\A p \in Procs : proc[p].dbInitialized =>
          /\ proc'[p] = proc[p]
          /\ \A k \in Reqs : req[k].proc = p => att'[k] = att[k]
          /\ \A r \in Reqs :
               (req[r].pc = "idle" /\ req'[r].proc = p /\ req'[r].route # "health")
                 => /\ req'[r].saw = "Ready"
                    /\ req'[r].outcome = "ok"
                    /\ req'[r].awaits = 0
                    /\ att'[r] = NoAtt
                    /\ UNCHANGED <<faults, dbVars>>]_vars

C15_Witness ==
  \E r, k \in Reqs :
    /\ req[r].saw = "Ready"
    /\ req[r].outcome = "ok"
    /\ req[r].route = "api"
    /\ req[r].pc = "responded"
    /\ att[r] = NoAtt
    /\ req[k].proc = req[r].proc
    /\ att[k].pc = "done"
    /\ ~att[k].existingUser

SchemaReturned(k) ==
  att[k].pc \in {"gate", "roles", "perms", "user", "getRole", "userRole",
                 "allPerms", "grants", "done"}

\* C18: whenever createSchema has returned in an attempt, and however many
\* attempts of however many instances have run or are running it, the tables
\* are exactly the tables of the schema; a statement of createSchema that the
\* database executes adds its table if it is missing, removes none, and never
\* fails because the table exists.
C18_SchemaIdempotent ==
  /\ [](tables \subseteq Range(SchemaTables))
  /\ [](\A k \in Reqs :
          /\ SchemaReturned(k) => (tables = Range(SchemaTables)
                                    /\ att[k].ddl = Len(SchemaTables))
          /\ att[k].err # "table already exists")
  /\ [][\A k \in Reqs :
          (att[k].pc = "schema" /\ att'[k] # att[k]) =>
            IF faults' = faults
            THEN /\ att'[k].pc # "failed"
                 /\ tables' = tables \cup {SchemaTables[att[k].i]}
            ELSE tables' = tables]_vars

C18_Witness ==
  \E r1, r2 \in Reqs :
    /\ req[r1].proc # req[r2].proc
    /\ att[r1].pc = "gate"
    /\ att[r2].pc = "gate"
    /\ att[r1].ddl + att[r2].ddl = 2 * Len(SchemaTables)
    /\ Cardinality(tables) = Len(SchemaTables)

RECURSIVE HasBigInt(_)
HasBigInt(x) ==
  IF x.t = "bigint" THEN TRUE
  ELSE IF x.t = "array" THEN \E i \in DOMAIN x.items : HasBigInt(x.items[i])
  ELSE IF x.t = "object" THEN \E k \in DOMAIN x.fields : HasBigInt(x.fields[k])
  ELSE FALSE

\* y is x with every bigint replaced by the number of the same value and
\* everything else, keys and structure included, as in x.
RECURSIVE SameButBigInts(_, _)
SameButBigInts(x, y) ==
  IF x.t = "bigint" THEN y.t = "number"
  ELSE IF x.t = "array"
  THEN /\ y.t = "array"
       /\ DOMAIN y.items = DOMAIN x.items
       /\ \A i \in DOMAIN x.items : SameButBigInts(x.items[i], y.items[i])
  ELSE IF x.t = "object"
  THEN /\ y.t = "object"
       /\ DOMAIN y.fields = DOMAIN x.fields
       /\ \A k \in DOMAIN x.fields : SameButBigInts(x.fields[k], y.fields[k])
  ELSE y = x

\* No value all, get or run returns holds a bigint at any depth.
NoBigIntReturned == gw.pc = "returned" => ~HasBigInt(gw.ret)

\* C19: what all and get return holds no bigint at any depth and is the
\* driver's rows (the first row, or null, for get) with nothing changed but
\* the bigints, which are numbers; what run returns holds no bigint.
C19_OnlyBigIntsConverted ==
  /\ NoBigIntReturned
  /\ (gw.pc = "returned" /\ gw.op = "all")
       => SameButBigInts(JsArray(gw.result.rows), gw.ret)
  /\ (gw.pc = "returned" /\ gw.op = "get")
       => SameButBigInts(IF Len(gw.result.rows) = 0 THEN JsNull
                         ELSE gw.result.rows[1], gw.ret)

\* C20: with the connection URL or the auth token absent, a call of
\* database.initialize has failed with the configuration error, the instance
\* has no connection object and no statement was handed to the driver;
\* otherwise the call created the connection and has sent exactly one
\* liveness query, which has been answered successfully in every attempt
\* that is past database.initialize.
C20_InitializeContract ==
  \A r \in Reqs :
    att[r].pc # "none" =>
      IF ~env.url \/ ~env.token
      THEN /\ att[r].pc = "failed"
           /\ att[r].err = "config"
           /\ ~proc[req[r].proc].db
           /\ att[r].pings = 0
           /\ att[r].ddl = 0
           /\ att[r].inserts = 0
           /\ faults = 0
      ELSE /\ proc[req[r].proc].db
           /\ att[r].pings = 1
           /\ (att[r].pc = "connect") => (att[r].ddl = 0 /\ att[r].inserts = 0)
           /\ (att[r].ddl > 0 \/ att[r].pc = "done") => att[r].err # "config"

C20_Witness ==
  \E r \in Reqs :
    /\ env.url
    /\ ~env.token
    /\ att[r].pc = "failed"
    /\ att[r].err = "config"
    /\ req[r].status = 503

\* C21: a call of all, get or run in a process without a connection object
\* throws 'Database not initialized' without handing a statement to the
\* driver and never returns; with a connection the statement is handed to
\* the driver, and whatever error is raised in the call, a constraint
\* violation included, is thrown to the caller unchanged.
C21_GatewayErrorsPropagate ==
  /\ ~proc[1].db =>
       /\ gw.pc \in {"called", "thrown"}
       /\ ~gw.sent
       /\ gw.pc = "thrown" => gw.err = "Database not initialized"
  /\ (proc[1].db /\ gw.pc # "called") => gw.sent
  /\ "raised" \in DOMAIN gw => (gw.pc = "thrown" /\ gw.err = gw.raised)
  /\ gw.pc = "returned" => "result" \in DOMAIN gw

C21_Witness ==
  /\ proc[1].db
  /\ gw.op = "run"
  /\ gw.pc = "thrown"
  /\ gw.sent
  /\ gw.err = UniqueErr

SeedSteps == {"gate", "roles", "perms", "user", "getRole", "userRole", "allPerms", "grants"}

\* The row the attempt of request k is about to insert is already stored.
RowExists(k) ==
  \/ att[k].pc = "roles" /\ Roles[att[k].i] \in Range(roles)
  \/ att[k].pc = "perms" /\ Permissions[att[k].i] \in Range(permissions)
  \/ att[k].pc = "grants"
       /\ <<att[k].roleId, att[k].allPermissions[att[k].i]>> \in Range(role_permissions)

\* C22: seeding absorbs only unique-constraint failures. When the insert of a
\* role, a permission or a grant is refused because the row exists, the
\* attempt does not fail: the insert is counted and the loop goes on to the
\* next row (or, after the last row, to the next step). When a statement of
\* any seed step fails in another way, the attempt fails with that error and
\* the process is not Ready. An attempt past a loop has issued the insert of
\* every row of that loop.
C22_SeedAbsorbsOnlyUnique ==
  /\ [][\A k \in Reqs :
          (att[k].pc \in SeedSteps /\ att'[k] # att[k]) =>
            /\ faults' # faults =>
                 /\ att'[k].pc = "failed"
                 /\ att'[k].err = "network"
                 /\ ~proc'[req[k].proc].dbInitialized
            /\ (faults' = faults /\ RowExists(k)) =>
                 /\ att'[k].pc # "failed"
                 /\ att'[k].err = "none"
                 /\ att'[k].inserts = att[k].inserts + 1
                 /\ \/ att'[k].pc = att[k].pc /\ att'[k].i = att[k].i + 1
                    \/ /\ att'[k].pc # att[k].pc
                       /\ att[k].pc = "roles" => att[k].i = Len(Roles)
                       /\ att[k].pc = "perms" => att[k].i = Len(Permissions)
                       /\ att[k].pc = "grants" => att[k].i = Len(att[k].allPermissions)]_vars
  /\ [](\A k \in Reqs :
          /\ att[k].err # "none" => (att[k].pc = "failed" /\ att[k].err # UniqueErr)
          /\ att[k].pc = "perms" => att[k].inserts = Len(Roles) + att[k].i - 1
          /\ att[k].pc = "user" => att[k].inserts = Len(Roles) + Len(Permissions)
          /\ (att[k].pc = "done" /\ att[k].lastID > 0 /\ Len(att[k].allPermissions) > 0) =>
               att[k].inserts = Len(Roles) + Len(Permissions) + 2 + Len(att[k].allPermissions))

\* An attempt that lost the race went through both loops, rows refused as
\* existing included, and ended without failing.
C22_Witness ==
  \E k \in Reqs :
    /\ att[k].pc = "done"
    /\ ~att[k].existingUser
    /\ att[k].lastID = 0
    /\ att[k].inserts = Len(Roles) + Len(Permissions) + 1
    /\ Len(roles) = Len(Roles)
    /\ Len(permissions) = Len(Permissions)

\* C23: the steps of one attempt run in the order initialize, createSchema,
\* seedDefaultDataIdempotent. The liveness query is issued only when the
\* attempt starts; schema statements are issued only after the liveness
\* query was answered without error; seeding starts only from the last
\* schema statement, answered without error, with every table created; an
\* attempt that is seeding issues no schema statement and no liveness query;
\* an attempt succeeds only out of a seed step; a statement that fails ends
\* the attempt, and an ended attempt issues nothing more.
C23_StepsInOrder ==
  [][\A k \in Reqs :
       att'[k] # att[k] =>
         /\ att[k].pc \notin {"done", "failed"}
         /\ faults' # faults => att'[k].pc = "failed"
         /\ att'[k].pings # att[k].pings => att[k].pc = "none"
         /\ att'[k].ddl # att[k].ddl =>
              (att[k].pc = "schema" /\ att[k].pings = 1 /\ att[k].inserts = 0)
         /\ (att'[k].pc = "schema" /\ att[k].pc # "schema") =>
              (att[k].pc = "connect" /\ faults' = faults /\ proc[req[k].proc].db)
         /\ att'[k].inserts # att[k].inserts => att[k].pc \in SeedSteps
         /\ (att'[k].pc \in SeedSteps /\ att[k].pc \notin SeedSteps) =>
              /\ att[k].pc = "schema"
              /\ att[k].i = Len(SchemaTables)
              /\ att'[k].pc = "gate"
              /\ att'[k].ddl = Len(SchemaTables)
              /\ Range(SchemaTables) \subseteq tables'
              /\ faults' = faults
         /\ att[k].pc \in SeedSteps =>
              /\ att'[k].pc \in SeedSteps \cup {"done", "failed"}
              /\ att'[k].ddl = Len(SchemaTables)
         /\ att'[k].pc = "done" => att[k].pc \in SeedSteps]_vars

\* An attempt failed at its third schema statement and never reached seeding.
C23_Witness ==
  \E k \in Reqs :
    /\ att[k].pc = "failed"
    /\ att[k].err = "network"
    /\ att[k].pings = 1
    /\ att[k].ddl = 3
    /\ att[k].inserts = 0
    /\ Cardinality(tables) = 2
    /\ Len(roles) = 0

GenericBodies ==
  {UnauthorizedBody, "Database initialization failed", "Cron job failed",
   "Database not configured"}

\* C25: a request, other than the health check, that met a failed or failing
\* initialisation is answered 503 with a fixed text and is not passed on;
\* and the body of every 401, 500 and 503 response is one of the fixed
\* texts, whatever the error was.
C25_FailureIsGeneric503 ==
  \A r \in Reqs :
    /\ (Called(r) /\ req[r].outcome = "fail") =>
         /\ req[r].pc = "responded"
         /\ req[r].status = 503
         /\ req[r].body \in GenericBodies
    /\ (req[r].pc = "responded" /\ req[r].status \in {401, 500, 503}) =>
         req[r].body \in GenericBodies

\* The request r passed the secret check of its cron endpoint.
Processed(r) ==
  /\ req[r].route \in CronRoutes
  /\ \/ req[r].pc = "cronUpdate"
     \/ req[r].pc = "responded" /\ req[r].status \in {200, 500}

\* C26: a cron request passes the secret check only when CRON_SECRET is
\* configured and the x-cron-secret header equals it; a cron request
\* without the header that came through initialisation is answered 401.
C26_CronNeedsConfiguredSecret ==
  \A r \in Reqs :
    /\ Processed(r) => (env.cronSecret # "none" /\ req[r].header = env.cronSecret)
    /\ ( /\ req[r].route \in CronRoutes
         /\ req[r].header = "none"
         /\ req[r].outcome = "ok"
         /\ req[r].pc = "responded" ) => req[r].status = 401

\* C27: whenever some instance is Ready, the database holds every role, every
\* permission, the seed account, its link to super_admin and the grant of
\* every permission to super_admin.
C27_ReadyImpliesFullySeeded ==
  (\E p \in Procs : proc[p].dbInitialized) => FullySeeded

\* C28: in every instance dbInitializing is true exactly while an attempt of
\* the instance is in flight, dbInitialized and dbInitializing are never both
\* true, and dbInitPromise is set whenever dbInitializing is true.
C28_FlagsEncodeOneState ==
  \A p \in Procs :
    /\ proc[p].dbInitializing <=> (\E k \in StartedBy(p) : InFlight(k))
    /\ ~(proc[p].dbInitialized /\ proc[p].dbInitializing)
    /\ proc[p].dbInitializing => proc[p].dbInitPromise # 0

\* C29: an instance whose every database.initialize call has failed holds no
\* connection object, so that all, get and run would throw 'Database not
\* initialized' there.
C29_ConnectionOnlyAfterSuccess ==
  \A p \in Procs :
    (\A k \in StartedBy(p) : att[k].pc = "failed" /\ att[k].ddl = 0) =>
      /\ ~proc[p].db
      /\ RunStmt(p, "users", FALSE) = "Database not initialized"

\* The seeding runs that found no user at their existence check and returned.
Racers == {k \in Reqs : att[k].pc = "done" /\ ~att[k].existingUser}

\* Every seeding run has returned: none is under way and none has raised.
SeedingQuiet ==
  \A k \in Reqs :
    /\ att[k].pc \notin SeedSteps
    /\ att[k].pc = "failed" => att[k].ddl < Len(SchemaTables)

\* C30: an attempt that enumerates the permissions for the grants finds every
\* one of the fixed permissions stored exactly once and enumerates them all;
\* and once every seeding run of a race has returned, super_admin holds as
\* many grants as there are permission rows, each permission once, and
\* user_roles holds exactly one row, linking the admin user to super_admin.
C30_RaceLeavesAllGrants ==
  /\ \A k \in Reqs :
       /\ att[k].pc \in {"allPerms", "grants"} =>
            /\ Len(permissions) = Len(Permissions)
            /\ \A j \in DOMAIN Permissions : Count(permissions, Permissions[j]) = 1
       /\ att[k].pc = "grants" =>
            att[k].allPermissions = [j \in DOMAIN Permissions |-> j]
  /\ (Racers # {} /\ SeedingQuiet) =>
       \E rid \in DOMAIN roles :
         /\ roles[rid] = "super_admin"
         /\ Cardinality({j \in DOMAIN role_permissions : role_permissions[j][1] = rid})
              = Len(permissions)
         /\ \A j \in DOMAIN permissions : Count(role_permissions, <<rid, j>>) = 1
         /\ users = <<"admin">>
         /\ user_roles = << <<1, rid>> >>

\* Two instances raced through seeding, the inserts of each refused or
\* accepted row by row, and both have returned.
C30_Witness ==
  \E k1, k2 \in Reqs :
    /\ req[k1].proc # req[k2].proc
    /\ Racers = {k1, k2}
    /\ att[k1].lastID > 0
    /\ att[k2].lastID = 0
    /\ att[k2].inserts > 0
    /\ SeedingQuiet
    /\ Len(role_permissions) = Len(Permissions)

====
